---- MODULE Spec2Model ----
(***************************************************************************)
(* Model of test_task/DirSync.py: one-level directory synchronisation.     *)
(*                                                                         *)
(* A directory is a function from file names to [c, id]: the file's bytes  *)
(* and the identity of the file entity (what an inode is on disk).  A      *)
(* StandardFS handle is a path, so a handle is modelled by the name it     *)
(* currently points at; two handles may point at the same name and a       *)
(* handle may point at a name that no longer exists.                       *)
(*                                                                         *)
(* A file name is a sequence of tokens: a base token ("a.txt", "README")   *)
(* followed by zero or more "_for_rename" tokens, so that                  *)
(* name + '_for_rename' is sequence concatenation.                         *)
(***************************************************************************)
EXTENDS Integers, Sequences, FiniteSets, TLC

VARIABLES
    src,                \* the source directory
    dst,                \* the destination directory
    pc,                 \* position in sync_directories
    run,                \* 1 during the first sync_directories call, 2 during the second
    source_files,       \* source_files: the source handles (names), in listing order
    dpath,              \* destination_files: handle index -> the handle's filepath
    dict_source,        \* dict_source_files: ordered dict digest -> list of source handles
    files_for_rename,   \* files_for_rename: ordered dict digest -> list of destination handles
    i,                  \* separate_files: index of the next destination handle
    rj, rk,             \* rename_destination_files: next key index, next item index
    cp,                 \* copy_files_to_destination: index of the next file to copy
    exc,                \* the exception that left sync_directories ("none" if none)
    cause,              \* the storage failure that started the unwinding ("none" if none)
    ops,                \* history: mutating storage calls of the current run, in order
    consumed,           \* history: <<source handle, destination handle>> per consumption
    matched,            \* history: per scanned handle, its name and content, the bucket
                        \* scanned and the candidate left in equal_file (None: none)
    nextId,             \* next unused file identity
    src0, dst0,         \* history: the directories when the first run started
    dst1                \* history: the destination when the first run finished

vars == <<src, dst, pc, run, source_files, dpath, dict_source, files_for_rename,
          i, rj, rk, cp, exc, cause, ops, consumed, matched, nextId, src0, dst0, dst1>>

----------------------------------------------------------------------------
(* Bounds and universes *)

MaxFiles == 4

MaxRerunFiles == 3

Contents == {<<>>, <<1>>, <<2>>}

InitNames == {<<"a.txt">>, <<"b.txt">>, <<"a.txt", "_for_rename">>, <<"README">>}

NameId(n) ==
    CASE n = <<"a.txt">> -> 1
      [] n = <<"b.txt">> -> 2
      [] n = <<"a.txt", "_for_rename">> -> 3
      [] OTHER -> 4

None == 0

----------------------------------------------------------------------------
(* Python containers *)

Range(s) == {s[x] : x \in 1..Len(s)}

Perms(S) == {s \in [1..Cardinality(S) -> S] : \A x, y \in 1..Cardinality(S) : s[x] = s[y] => x = y}

Min(a, b) == IF a < b THEN a ELSE b

DictHas(d, k) == \E x \in 1..Len(d) : d[x].k = k

DictIdx(d, k) == CHOOSE x \in 1..Len(d) : d[x].k = k

DictGet(d, k) == d[DictIdx(d, k)].v

DictSet(d, k, v) ==
    IF DictHas(d, k) THEN [d EXCEPT ![DictIdx(d, k)].v = v]
    ELSE Append(d, [k |-> k, v |-> v])

DictAppend(d, k, x) ==
    IF DictHas(d, k) THEN DictSet(d, k, Append(DictGet(d, k), x))
    ELSE DictSet(d, k, <<x>>)

DictPop(d, k) == SelectSeq(d, LAMBDA e : e.k # k)

ListHas(l, x) == \E y \in 1..Len(l) : l[y] = x

ListRemove(l, x) ==
    LET y == CHOOSE z \in 1..Len(l) : l[z] = x /\ \A w \in 1..(z - 1) : l[w] # x
    IN SubSeq(l, 1, y - 1) \o SubSeq(l, y + 1, Len(l))

DictValues(d) == UNION {Range(d[x].v) : x \in 1..Len(d)}

RECURSIVE DictFlatten(_)
DictFlatten(d) == IF d = <<>> THEN <<>> ELSE d[1].v \o DictFlatten(Tail(d))

----------------------------------------------------------------------------
(* StandardFS *)

Exists(dir, p) == p \in DOMAIN dir

DirPut(dir, p, f) == [n \in (DOMAIN dir) \cup {p} |-> IF n = p THEN f ELSE dir[n]]

DirDel(dir, p) == [n \in (DOMAIN dir) \ {p} |-> dir[n]]

DirContents(dir) == {<<n, dir[n].c>> : n \in DOMAIN dir}

glob_match(name) == \E x \in 1..Len(name) : name[x] \in {"a.txt", "b.txt"}

get_files(dir) == {n \in DOMAIN dir : glob_match(n)}

get_file_name(p) == p

suffix == <<"_for_rename">>

chunk_size == 4096

block_size == 65536

read_chunk(content, pos, size) == SubSeq(content, pos + 1, Min(pos + size, Len(content)))

close_file(file_obj) == IF file_obj = None THEN "AttributeError" ELSE "none"

RECURSIVE SumSeq(_)
SumSeq(s) == IF s = <<>> THEN 0 ELSE s[1] + SumSeq(Tail(s))

\* hashlib.md5: a fixed-size fingerprint, smaller than the content space
md5_update(file_hash, chunk) == (file_hash + SumSeq(chunk)) % 2

RECURSIVE hash_loop(_, _, _)
hash_loop(content, pos, file_hash) ==
    LET chunk == read_chunk(content, pos, block_size)
    IN IF Len(chunk) > 0
       THEN hash_loop(content, pos + block_size, md5_update(file_hash, chunk))
       ELSE file_hash

\* get_file_hash: [exc, cause, ret]
get_file_hash(w, file) ==
    IF ~Exists(w[file.root], file.path)
    THEN \* open_file raises, file_obj is still None in the finally clause
         [exc |-> close_file(None), cause |-> "FileNotFoundError", ret |-> 0]
    ELSE [exc |-> close_file(1), cause |-> "none",
          ret |-> hash_loop(w[file.root][file.path].c, 0, 0)]

\* an open_file or close_file call on a handle; ok: the call returned
Call(call, file, ok) == [call |-> call, root |-> file.root, path |-> file.path, ok |-> ok]

\* the open_file and close_file calls of get_file_hash, in call order
get_file_hash_calls(w, file) ==
    IF ~Exists(w[file.root], file.path)
    THEN <<Call("open_file", file, FALSE), Call("close_file", file, close_file(None) = "none")>>
    ELSE <<Call("open_file", file, TRUE), Call("close_file", file, close_file(1) = "none")>>

RECURSIVE match_loop(_, _, _)
match_loop(c1, c2, pos) ==
    LET data1 == read_chunk(c1, pos, chunk_size)
        data2 == read_chunk(c2, pos, chunk_size)
    IN IF data1 # data2 THEN FALSE
       ELSE IF data1 = <<>> THEN TRUE
       ELSE match_loop(c1, c2, pos + chunk_size)

\* the finally clause of binary_matching: close file1, then file2
match_finally(obj1, obj2) ==
    IF close_file(obj1) # "none" THEN close_file(obj1) ELSE close_file(obj2)

\* binary_matching: [exc, cause, ret]
binary_matching(w, file1, file2) ==
    IF ~Exists(w[file1.root], file1.path)
    THEN [exc |-> match_finally(None, None), cause |-> "FileNotFoundError", ret |-> FALSE]
    ELSE IF ~Exists(w[file2.root], file2.path)
    THEN [exc |-> match_finally(1, None), cause |-> "FileNotFoundError", ret |-> FALSE]
    ELSE IF match_loop(w[file1.root][file1.path].c, w[file2.root][file2.path].c, 0)
    THEN [exc |-> match_finally(1, 1), cause |-> "none", ret |-> TRUE]
    ELSE \* both handles were closed before the return; the finally clause closes again
         [exc |-> match_finally(None, None), cause |-> "none", ret |-> FALSE]

\* the open_file and close_file calls of binary_matching, in call order; the finally
\* clause stops at the first close_file that raises
binary_matching_calls(w, file1, file2) ==
    LET open1 == Call("open_file", file1, TRUE)
        open2 == Call("open_file", file2, TRUE)
        close1 == Call("close_file", file1, TRUE)
        close2 == Call("close_file", file2, TRUE)
    IN IF ~Exists(w[file1.root], file1.path)
       THEN <<Call("open_file", file1, FALSE), Call("close_file", file1, FALSE)>>
       ELSE IF ~Exists(w[file2.root], file2.path)
       THEN <<open1, Call("open_file", file2, FALSE), close1, Call("close_file", file2, FALSE)>>
       ELSE IF match_loop(w[file1.root][file1.path].c, w[file2.root][file2.path].c, 0)
       THEN <<open1, open2, close1, close2>>
       ELSE \* the mismatch branch closes both, then the finally clause closes file1
            <<open1, open2, close1, close2, Call("close_file", file1, FALSE)>>

\* a mutating storage call, as recorded in ops
Op(op, file, to, occ, data) ==
    [op |-> op, root |-> file.root, path |-> file.path, to |-> to, occ |-> occ, data |-> data]

\* mutant of remove_file: the call returns without unlinking the file
remove_file_kept(w, file) ==
    [exc |-> "none", w |-> w, ops |-> <<Op("remove_file", file, <<>>, FALSE, <<>>)>>]

\* StandardFS.remove_file: [exc, w, ops]
remove_file(w, file) ==
    IF ~Exists(w[file.root], file.path)
    THEN [exc |-> "FileNotFoundError", w |-> w, ops |-> <<>>]
    ELSE [exc |-> "none",
          w |-> [w EXCEPT ![file.root] = DirDel(@, file.path)],
          ops |-> <<Op("remove_file", file, <<>>, FALSE, <<>>)>>]

\* StandardFS.rename_file: [exc, w, file, ops].  Path.rename onto a name that another
\* file holds replaces that file (POSIX) or raises FileExistsError (Windows):
\* replace says which.
rename_file(w, file, new_name, replace) ==
    LET dir == w[file.root]
        occupied == Exists(dir, new_name) /\ new_name # file.path
    IN IF ~Exists(dir, file.path)
       THEN [exc |-> "FileNotFoundError", w |-> w, file |-> file, ops |-> <<>>]
       ELSE IF occupied /\ ~replace
       THEN [exc |-> "FileExistsError", w |-> w, file |-> file, ops |-> <<>>]
       ELSE [exc |-> "none",
             w |-> [w EXCEPT ![file.root] = DirPut(DirDel(dir, file.path), new_name, dir[file.path])],
             file |-> [file EXCEPT !.path = new_name],
             ops |-> <<Op("rename_file", file, new_name, occupied, <<>>)>>]

\* StandardFS.create_file: Path.touch creates an empty file unless the name exists
create_file(w, root, name, id) ==
    LET new_file == [root |-> root, path |-> name]
    IN [exc |-> "none",
        w |-> IF Exists(w[root], name) THEN w
              ELSE [w EXCEPT ![root] = DirPut(@, name, [c |-> <<>>, id |-> id])],
        file |-> new_file,
        ops |-> <<Op("create_file", new_file, <<>>, Exists(w[root], name), <<>>)>>]

\* the while loop of copy_file: [w, ops]
RECURSIVE copy_loop(_, _, _, _, _)
copy_loop(w, content, pos, destination_file, acc) ==
    LET chunk == read_chunk(content, pos, chunk_size)
        d == destination_file
    IN IF Len(chunk) > 0
       THEN copy_loop([w EXCEPT ![d.root][d.path].c = @ \o chunk], content, pos + chunk_size, d,
                      Append(acc, Op("write_chunk", d, <<>>, FALSE, chunk)))
       ELSE [w |-> w, ops |-> acc]

\* copy_file: [exc, cause, w, ops]
copy_file(w, source_file, destination_file) ==
    LET s == source_file
        d == destination_file
        \* open(..., 'ab') creates a missing file
        w1 == IF Exists(w[d.root], d.path) THEN w
              ELSE [w EXCEPT ![d.root] = DirPut(@, d.path, [c |-> <<>>, id |-> 0])]
        r == copy_loop(w1, w[s.root][s.path].c, 0, d, <<>>)
    IN IF ~Exists(w[s.root], s.path)
       THEN [exc |-> close_file(None), cause |-> "FileNotFoundError", w |-> w, ops |-> <<>>]
       ELSE [exc |-> "none", cause |-> "none", w |-> r.w, ops |-> r.ops]

\* the open_file and close_file calls of copy_file, in call order
copy_file_calls(w, source_file, destination_file) ==
    IF ~Exists(w[source_file.root], source_file.path)
    THEN <<Call("open_file", source_file, FALSE), Call("close_file", source_file, FALSE)>>
    ELSE <<Call("open_file", source_file, TRUE), Call("open_file", destination_file, TRUE),
           Call("close_file", source_file, TRUE), Call("close_file", destination_file, TRUE)>>

----------------------------------------------------------------------------
(* The reconciliation engine *)

SourceFile(sfiles, s) == [root |-> "source", path |-> sfiles[s]]

DestFile(dfiles, h) == [root |-> "destination", path |-> dfiles[h]]

\* create_filehash_dictionary; the buckets hold indices into source_files
RECURSIVE create_filehash_dictionary(_, _, _, _)
create_filehash_dictionary(w, files, k, dict_files) ==
    IF k > Len(files) THEN dict_files
    ELSE create_filehash_dictionary(w, files, k + 1,
             DictAppend(dict_files, get_file_hash(w, SourceFile(files, k)).ret, k))

\* mutant of scan_bucket: a later binary-equal candidate of another name does not
\* replace the one already recorded
RECURSIVE scan_bucket_first(_, _, _, _, _, _)
scan_bucket_first(w, file, sfiles, bucket, k, acc) ==
    IF k > Len(bucket) THEN acc
    ELSE LET source_file == SourceFile(sfiles, bucket[k])
             m == binary_matching(w, file, source_file)
             found == [acc EXCEPT !.file_not_in_source = FALSE, !.equal_file = bucket[k]]
             kept == IF acc.equal_file = None THEN found ELSE acc
         IN IF m.exc # "none" THEN [acc EXCEPT !.exc = m.exc, !.cause = m.cause]
            ELSE IF m.ret
            THEN IF get_file_name(file.path) = get_file_name(source_file.path)
                 THEN found
                 ELSE scan_bucket_first(w, file, sfiles, bucket, k + 1, kept)
            ELSE scan_bucket_first(w, file, sfiles, bucket, k + 1, acc)

\* the candidate scan of separate_files: [exc, cause, file_not_in_source, equal_file]
RECURSIVE scan_bucket(_, _, _, _, _, _)
scan_bucket(w, file, sfiles, bucket, k, acc) ==
    IF k > Len(bucket) THEN acc
    ELSE LET source_file == SourceFile(sfiles, bucket[k])
             m == binary_matching(w, file, source_file)
             found == [acc EXCEPT !.file_not_in_source = FALSE, !.equal_file = bucket[k]]
         IN IF m.exc # "none" THEN [acc EXCEPT !.exc = m.exc, !.cause = m.cause]
            ELSE IF m.ret
            THEN IF get_file_name(file.path) = get_file_name(source_file.path)
                 THEN found
                 ELSE scan_bucket(w, file, sfiles, bucket, k + 1, found)
            ELSE scan_bucket(w, file, sfiles, bucket, k + 1, acc)

\* mutant of consume: the matched handle stays in its bucket
consume_keep(ds, file_hash, x) == [exc |-> "none", d |-> ds]

\* dict_source[file_hash].remove(x): [exc, d]
consume(ds, file_hash, x) ==
    IF ListHas(DictGet(ds, file_hash), x)
    THEN [exc |-> "none", d |-> DictSet(ds, file_hash, ListRemove(DictGet(ds, file_hash), x))]
    ELSE [exc |-> "ValueError", d |-> ds]

\* if not dict_source[file_hash]: dict_source.pop(file_hash)
pop_if_empty(ds, file_hash) ==
    IF DictGet(ds, file_hash) = <<>> THEN DictPop(ds, file_hash) ELSE ds

\* one iteration of the loop of separate_files, for destination handle h
separate_file(w, ds, ffr, sfiles, file, h, replace) ==
    LET hr == get_file_hash(w, file)
        file_hash == hr.ret
        acc0 == [exc |-> "none", cause |-> "none", file_not_in_source |-> TRUE, equal_file |-> None]
        sc == IF DictHas(ds, file_hash)
              THEN scan_bucket(w, file, sfiles, DictGet(ds, file_hash), 1, acc0)
              ELSE acc0
        base == [exc |-> "none", cause |-> "none", w |-> w, dict_source |-> ds,
                 files_for_rename |-> ffr, file |-> file, ops |-> <<>>, consumed |-> <<>>,
                 equal_file |-> None,
                 bucket |-> IF hr.exc = "none" /\ DictHas(ds, file_hash)
                            THEN DictGet(ds, file_hash) ELSE <<>>]
    IN IF hr.exc # "none" THEN [base EXCEPT !.exc = hr.exc, !.cause = hr.cause]
       ELSE IF sc.exc # "none" THEN [base EXCEPT !.exc = sc.exc, !.cause = sc.cause]
       ELSE IF sc.file_not_in_source
       THEN LET r == remove_file(w, file)
            IN [base EXCEPT !.exc = r.exc, !.cause = r.exc, !.w = r.w, !.ops = r.ops]
       ELSE IF get_file_name(file.path) # get_file_name(sfiles[sc.equal_file])
       THEN LET r == rename_file(w, file, get_file_name(file.path) \o suffix, replace)
            IN IF r.exc # "none"
               THEN [base EXCEPT !.exc = r.exc, !.cause = r.exc, !.equal_file = sc.equal_file]
               ELSE [base EXCEPT !.w = r.w, !.file = r.file, !.ops = r.ops,
                                 !.files_for_rename = DictAppend(ffr, file_hash, h),
                                 !.dict_source = pop_if_empty(ds, file_hash),
                                 !.equal_file = sc.equal_file]
       ELSE LET c == consume(ds, file_hash, sc.equal_file)
            IN [base EXCEPT !.exc = c.exc, !.dict_source = pop_if_empty(c.d, file_hash),
                            !.consumed = <<<<sc.equal_file, h>>>>,
                            !.equal_file = sc.equal_file]

\* mutant of rename_to_source: receiver and argument swapped
rename_to_source_swapped(w, file, source_file, replace) ==
    rename_file(w, source_file, get_file_name(file.path), replace)

\* file_for_rename.rename_file(source_file.get_file_name())
rename_to_source(w, file, source_file, replace) ==
    rename_file(w, file, get_file_name(source_file.path), replace)

\* the candidate scan of rename_destination_files: [exc, cause, w, file, ops, delete_file]
RECURSIVE scan_rename(_, _, _, _, _, _)
scan_rename(w, file, sfiles, bucket, k, replace) ==
    IF k > Len(bucket)
    THEN [exc |-> "none", cause |-> "none", w |-> w, file |-> file, ops |-> <<>>,
          delete_file |-> None]
    ELSE LET source_file == SourceFile(sfiles, bucket[k])
             m == binary_matching(w, file, source_file)
             r == rename_to_source(w, file, source_file, replace)
         IN IF m.exc # "none"
            THEN [exc |-> m.exc, cause |-> m.cause, w |-> w, file |-> file, ops |-> <<>>,
                  delete_file |-> None]
            ELSE IF m.ret
            THEN [exc |-> r.exc, cause |-> r.exc, w |-> r.w, file |-> r.file, ops |-> r.ops,
                  delete_file |-> IF r.exc = "none" THEN bucket[k] ELSE None]
            ELSE scan_rename(w, file, sfiles, bucket, k + 1, replace)

\* one iteration of the inner loops of rename_destination_files, for destination
\* handle h; last: h is the last handle of its bucket, so the bucket's pop follows
rename_one(w, ds, sfiles, file_hash, file, h, last, replace) ==
    LET base == [exc |-> "none", cause |-> "none", w |-> w, dict_source |-> ds,
                 file |-> file, ops |-> <<>>, consumed |-> <<>>]
        bucket == DictGet(ds, file_hash)
        r0 == IF bucket = <<>> THEN remove_file(w, file)
              ELSE [exc |-> "none", w |-> w, ops |-> <<>>]
        sc == scan_rename(r0.w, file, sfiles, bucket, 1, replace)
        c == IF bucket # <<>> THEN consume(ds, file_hash, sc.delete_file)
             ELSE [exc |-> "none", d |-> ds]
    IN IF ~DictHas(ds, file_hash)
       THEN LET r == remove_file(w, file)
            IN [base EXCEPT !.exc = r.exc, !.cause = r.exc, !.w = r.w, !.ops = r.ops]
       ELSE IF r0.exc # "none"
       THEN [base EXCEPT !.exc = r0.exc, !.cause = r0.exc]
       ELSE IF sc.exc # "none"
       THEN [base EXCEPT !.exc = sc.exc, !.cause = sc.cause, !.w = sc.w, !.ops = r0.ops \o sc.ops]
       ELSE IF c.exc # "none"
       THEN [base EXCEPT !.exc = c.exc, !.w = sc.w, !.file = sc.file, !.ops = r0.ops \o sc.ops]
       ELSE [base EXCEPT !.w = sc.w, !.file = sc.file, !.ops = r0.ops \o sc.ops,
                         !.dict_source = IF last THEN pop_if_empty(c.d, file_hash) ELSE c.d,
                         !.consumed = IF sc.delete_file = None THEN <<>>
                                      ELSE <<<<sc.delete_file, h>>>>]

\* one iteration of the inner loop of copy_files_to_destination: [exc, cause, w, ops]
copy_one(w, file, id) ==
    LET n == create_file(w, "destination", get_file_name(file.path), id)
        r == copy_file(n.w, file, n.file)
    IN [exc |-> r.exc, cause |-> r.cause, w |-> r.w, ops |-> n.ops \o r.ops]

----------------------------------------------------------------------------
(* sync_directories, one step per loop iteration *)

World == [source |-> src, destination |-> dst]

Phase(evs, ph) ==
    [x \in 1..Len(evs) |->
        [ph |-> ph, op |-> evs[x].op, root |-> evs[x].root, path |-> evs[x].path,
         to |-> evs[x].to, occ |-> evs[x].occ, data |-> evs[x].data]]

DirSet ==
    UNION {[S -> {[c |-> c, id |-> NameId(n)] : c \in Contents, n \in S}] : S \in SUBSET InitNames}

Dirs == {d \in DirSet : \A n \in DOMAIN d : d[n].id = NameId(n)}

Init ==
    /\ src \in Dirs
    /\ dst \in Dirs
    /\ Cardinality(DOMAIN src) + Cardinality(DOMAIN dst) <= MaxFiles
    /\ pc = "start"
    /\ run = 1
    /\ source_files = <<>>
    /\ dpath = <<>>
    /\ dict_source = <<>>
    /\ files_for_rename = <<>>
    /\ i = 1
    /\ rj = 1
    /\ rk = 1
    /\ cp = 1
    /\ exc = "none"
    /\ cause = "none"
    /\ ops = <<>>
    /\ consumed = <<>>
    /\ matched = <<>>
    /\ nextId = 5
    /\ src0 = src
    /\ dst0 = dst
    /\ dst1 = dst

\* mutant of AfterSeparate: the copy is tested before the pending renames
AfterSeparate_copy_first(ds, ffr) ==
    IF ds # <<>> THEN "copy" ELSE IF ffr # <<>> THEN "rename" ELSE "done"

\* the if chain of sync_directories after separate_files returned
AfterSeparate(ds, ffr) ==
    IF ffr # <<>> THEN "rename" ELSE IF ds # <<>> THEN "copy" ELSE "done"

\* the if chain of sync_directories after rename_destination_files returned
AfterRename(ds) == IF ds # <<>> THEN "copy" ELSE "done"

\* get_files of both roots and create_filehash_dictionary
Start ==
    /\ pc = "start"
    /\ \E sf \in Perms(get_files(src)), df \in Perms(get_files(dst)) :
          LET ds == IF sf # <<>> THEN create_filehash_dictionary(World, sf, 1, <<>>) ELSE <<>>
          IN /\ source_files' = sf
             /\ dpath' = df
             /\ dict_source' = ds
             /\ pc' = IF df # <<>> THEN "separate" ELSE AfterSeparate(ds, <<>>)
    /\ files_for_rename' = <<>>
    /\ i' = 1
    /\ rj' = 1
    /\ rk' = 1
    /\ cp' = 1
    /\ UNCHANGED <<src, dst, run, exc, cause, ops, consumed, matched, nextId, src0, dst0, dst1>>

\* separate_files, one destination file
Separate ==
    /\ pc = "separate"
    /\ \E replace \in BOOLEAN :
          LET r == separate_file(World, dict_source, files_for_rename, source_files,
                                 DestFile(dpath, i), i, replace)
          IN /\ src' = r.w.source
             /\ dst' = r.w.destination
             /\ dpath' = [dpath EXCEPT ![i] = r.file.path]
             /\ dict_source' = r.dict_source
             /\ files_for_rename' = r.files_for_rename
             /\ ops' = ops \o Phase(r.ops, 1)
             /\ consumed' = consumed \o r.consumed
             /\ matched' = Append(matched,
                    [h |-> i, name |-> dpath[i], bucket |-> r.bucket,
                     c |-> IF Exists(dst, dpath[i]) THEN dst[dpath[i]].c ELSE <<>>,
                     equal_file |-> r.equal_file])
             /\ exc' = r.exc
             /\ cause' = r.cause
             /\ i' = IF r.exc = "none" THEN i + 1 ELSE i
             /\ pc' = IF r.exc # "none" THEN "error"
                      ELSE IF i < Len(dpath) THEN "separate"
                      ELSE AfterSeparate(r.dict_source, r.files_for_rename)
    /\ UNCHANGED <<run, source_files, rj, rk, cp, nextId, src0, dst0, dst1>>

\* rename_destination_files, one pending file
Rename ==
    /\ pc = "rename"
    /\ \E replace \in BOOLEAN :
          LET e == files_for_rename[rj]
              h == e.v[rk]
              last == rk = Len(e.v)
              r == rename_one(World, dict_source, source_files, e.k, DestFile(dpath, h), h,
                              last, replace)
          IN /\ src' = r.w.source
             /\ dst' = r.w.destination
             /\ dpath' = [dpath EXCEPT ![h] = r.file.path]
             /\ dict_source' = r.dict_source
             /\ ops' = ops \o Phase(r.ops, 2)
             /\ consumed' = consumed \o r.consumed
             /\ exc' = r.exc
             /\ cause' = r.cause
             /\ rj' = IF r.exc = "none" /\ last THEN rj + 1 ELSE rj
             /\ rk' = IF r.exc # "none" THEN rk ELSE IF last THEN 1 ELSE rk + 1
             /\ pc' = IF r.exc # "none" THEN "error"
                      ELSE IF last /\ rj = Len(files_for_rename) THEN AfterRename(r.dict_source)
                      ELSE "rename"
    /\ UNCHANGED <<run, source_files, files_for_rename, i, cp, matched, nextId, src0, dst0, dst1>>

\* copy_files_to_destination, one source file
Copy ==
    /\ pc = "copy"
    /\ LET todo == DictFlatten(dict_source)
           r == copy_one(World, SourceFile(source_files, todo[cp]), nextId)
       IN /\ src' = r.w.source
          /\ dst' = r.w.destination
          /\ ops' = ops \o Phase(r.ops, 3)
          /\ exc' = r.exc
          /\ cause' = r.cause
          /\ cp' = IF r.exc = "none" THEN cp + 1 ELSE cp
          /\ pc' = IF r.exc # "none" THEN "error"
                   ELSE IF cp < Len(todo) THEN "copy" ELSE "done"
    /\ nextId' = nextId + 1
    /\ UNCHANGED <<run, source_files, dpath, dict_source, files_for_rename, i, rj, rk,
                   consumed, matched, src0, dst0, dst1>>

Next == Start \/ Separate \/ Rename \/ Copy

Spec == Init /\ [][Next]_vars

\* The storage layer fails under the step that is about to run (permission denied,
\* disk full, ...).  Inside get_file_hash, binary_matching and copy_file a failed
\* open_file leaves file_obj None for the finally clause.  Every step mutates the
\* destination in its last storage call, except the copy step: its create_file
\* comes first and its chunks are written one by one.
IOFail ==
    /\ pc \in {"start", "separate", "rename", "copy"}
    /\ \E op \in {"open_file", "read_chunk", "write_chunk", "rename_file", "remove_file",
                  "create_file"}, whole \in BOOLEAN :
          /\ pc = "start" => op \in {"open_file", "read_chunk"}
          /\ pc \in {"separate", "rename"} =>
                op \in {"open_file", "read_chunk", "rename_file", "remove_file"}
          /\ pc = "copy" => op \in {"create_file", "open_file", "read_chunk", "write_chunk"}
          /\ whole => pc = "copy" /\ op = "read_chunk"
          /\ exc' = IF op = "open_file" THEN close_file(None) ELSE "IOFailure"
          /\ cause' = "IOFailure"
          /\ IF pc = "copy" /\ op # "create_file"
             THEN LET file == SourceFile(source_files, DictFlatten(dict_source)[cp])
                      n == create_file(World, "destination", get_file_name(file.path), nextId)
                      r == copy_one(World, file, nextId)
                  IN /\ dst' = IF whole THEN r.w.destination ELSE n.w.destination
                     /\ ops' = ops \o Phase(IF whole THEN r.ops ELSE n.ops, 3)
             ELSE UNCHANGED <<dst, ops>>
    /\ pc' = "error"
    /\ nextId' = nextId + 1
    /\ UNCHANGED <<src, run, source_files, dpath, dict_source, files_for_rename, i, rj, rk, cp,
                   consumed, matched, src0, dst0, dst1>>

NextIO == Next \/ IOFail

SpecIO == Init /\ [][NextIO]_vars

\* a second call of sync_directories after the first one returned
Rerun ==
    /\ pc = "done"
    /\ run = 1
    /\ run' = 2
    /\ pc' = "start"
    /\ dst1' = dst
    /\ source_files' = <<>>
    /\ dpath' = <<>>
    /\ dict_source' = <<>>
    /\ files_for_rename' = <<>>
    /\ i' = 1
    /\ rj' = 1
    /\ rk' = 1
    /\ cp' = 1
    /\ ops' = <<>>
    /\ consumed' = <<>>
    /\ matched' = <<>>
    /\ UNCHANGED <<src, dst, exc, cause, nextId, src0, dst0>>

NextTwice == Next \/ Rerun

InitTwice ==
    /\ Init
    /\ Cardinality(DOMAIN src) + Cardinality(DOMAIN dst) <= MaxRerunFiles

SpecTwice == InitTwice /\ [][NextTwice]_vars

----------------------------------------------------------------------------
(* Properties *)

FileHash(c) == hash_loop(c, 0, 0)

Returned == pc = "done"

FirstRun == run = 1

\* the file entities of the initial destination that still exist
Survives(D) == \E n \in DOMAIN dst : dst[n].id = dst0[D].id

HasOp(op) == \E x \in 1..Len(ops) : ops[x].op = op

\* C1: when sync_directories returns without error, the destination holds exactly the
\* (name, content) pairs of the source.
C1_DestinationEqualsSource ==
    (FirstRun /\ Returned) => DirContents(dst) = DirContents(src)

\* C2: in every state of a run, aborted runs included, the source directory is what
\* it was when the run started, and no mutating storage call was made on it.
C2_SourceUnchanged ==
    /\ src = src0
    /\ \A x \in 1..Len(ops) : ops[x].root = "destination"

C2_Witness ==
    /\ pc = "error"
    /\ cause = "IOFailure"
    /\ DOMAIN src # {}
    /\ HasOp("rename_file")
    /\ HasOp("write_chunk")

\* C3: rename-over-delete: if the source has b with content C, the destination has a
\* (a # b) with content C and no other source file has content C, then after the run
\* the destination has b with content C, has no a, b is the file that was a, and
\* nothing was created or written for it.
C3_RenameOverDelete ==
    (FirstRun /\ Returned) =>
        \A b \in DOMAIN src0, a \in DOMAIN dst0 :
            (/\ a # b
             /\ src0[b].c = dst0[a].c
             /\ \A o \in DOMAIN src0 : src0[o].c = src0[b].c => o = b)
            => /\ b \in DOMAIN dst
               /\ dst[b].c = src0[b].c
               /\ a \notin DOMAIN dst
               /\ dst[b].id = dst0[a].id
               /\ \A x \in 1..Len(ops) :
                      ops[x].op \in {"create_file", "write_chunk"} => ops[x].path # b

\* the run started with one source file S and one destination file D, both listed,
\* of equal digest and different content
Collision ==
    /\ Cardinality(DOMAIN src0) = 1
    /\ Cardinality(DOMAIN dst0) = 1
    /\ \A S \in DOMAIN src0, D \in DOMAIN dst0 :
          /\ glob_match(S)
          /\ glob_match(D)
          /\ FileHash(src0[S].c) = FileHash(dst0[D].c)
          /\ src0[S].c # dst0[D].c

\* C4: digest-collision safety: for S and D of equal digest and different content
\* binary_matching(D, S) yields false, D is not renamed, S is not consumed, and the
\* run removes D and copies S.
C4_CollisionSafety ==
    (FirstRun /\ Collision) =>
        /\ pc = "separate" =>
              binary_matching(World, DestFile(dpath, 1), SourceFile(source_files, 1))
                  = [exc |-> "none", cause |-> "none", ret |-> FALSE]
        /\ ~HasOp("rename_file")
        /\ consumed = <<>>
        /\ pc # "error"
        /\ Returned => /\ DirContents(dst) = DirContents(src)
                       /\ HasOp("remove_file")
                       /\ HasOp("create_file")

\* C5: idempotence: a second run right after a completed first run makes no
\* mutating storage call and leaves the destination as the first run left it.
C5_Idempotent ==
    run = 2 => /\ ops = <<>>
               /\ dst = dst1

\* C6: completeness: every source file with no content-equal destination file at the
\* start is in the destination, under its name and with its content, after the run.
C6_Completeness ==
    (FirstRun /\ Returned) =>
        \A F \in DOMAIN src0 :
            (\A D \in DOMAIN dst0 : dst0[D].c # src0[F].c)
            => (F \in DOMAIN dst /\ dst[F].c = src0[F].c)

\* C7: pruning: every destination file with no content-equal source file is gone
\* after the run, under whatever name.
C7_Pruning ==
    (FirstRun /\ Returned) =>
        \A D \in DOMAIN dst0 :
            (\A S \in DOMAIN src0 : src0[S].c # dst0[D].c) => ~Survives(D)

\* C8: bucket exhaustion: of d destination files of one digest against s < d source
\* files of that digest, exactly s survive the run.
C8_BucketExhaustion ==
    (FirstRun /\ Returned) =>
        \A c \in Contents :
            LET ds == {D \in DOMAIN dst0 : FileHash(dst0[D].c) = FileHash(c)}
                ss == {S \in DOMAIN src0 : FileHash(src0[S].c) = FileHash(c)}
            IN Cardinality(ds) > Cardinality(ss)
               => Cardinality({D \in ds : Survives(D)}) = Cardinality(ss)

\* C9: empty sides: with an empty destination phases 1 and 2 are skipped and the
\* destination ends equal to the source; with an empty source every destination
\* file is removed and nothing is created.
C9_EmptySide ==
    (FirstRun /\ Returned) =>
        /\ DOMAIN dst0 = {} =>
              /\ \A x \in 1..Len(ops) : ops[x].ph = 3
              /\ DirContents(dst) = DirContents(src)
        /\ DOMAIN src0 = {} =>
              /\ DOMAIN dst = {}
              /\ ~HasOp("create_file")

\* C10: exactly-once consumption: no source handle is consumed twice or for two
\* destination handles, a consumed handle is in no bucket of the index, and no
\* consumed handle is copied in phase 3.
C10_ExactlyOnce ==
    /\ \A x, y \in 1..Len(consumed) : consumed[x][1] = consumed[y][1] => x = y
    /\ \A x \in 1..Len(consumed) : consumed[x][1] \notin DictValues(dict_source)
    /\ \A x \in 1..Len(consumed), y \in 1..Len(ops) :
          ops[y].op = "create_file" => ops[y].path # source_files[consumed[x][1]]

C10_Witness ==
    /\ Returned
    /\ Len(consumed) = 2
    /\ Cardinality({x \in 1..Len(ops) : ops[x].op = "rename_file" /\ ops[x].ph = 2}) = 1

\* a call trace releases its handles in scope: open_file only on a closed handle,
\* close_file only on an open one, and no handle open at the end
RECURSIVE ScopedRelease(_, _, _)
ScopedRelease(calls, k, open) ==
    IF k > Len(calls) THEN open = {}
    ELSE LET handle == <<calls[k].root, calls[k].path>>
         IN IF calls[k].call = "open_file"
            THEN /\ handle \notin open
                 /\ ScopedRelease(calls, k + 1, IF calls[k].ok THEN open \cup {handle} ELSE open)
            ELSE /\ handle \in open
                 /\ calls[k].ok
                 /\ ScopedRelease(calls, k + 1, open \ {handle})

\* the candidates of bucket the scan of separate_files reaches for file: those after
\* which no earlier call raised or ended the scan on an exact name match
ScannedBySeparate(file, bucket) ==
    {k \in 1..Len(bucket) : \A j \in 1..(k - 1) :
        LET m == binary_matching(World, file, SourceFile(source_files, bucket[j]))
        IN /\ m.exc = "none"
           /\ ~(m.ret /\ get_file_name(file.path) = get_file_name(source_files[bucket[j]]))}

\* the candidates of bucket the scan of rename_destination_files reaches for file
ScannedByRename(file, bucket) ==
    {k \in 1..Len(bucket) : \A j \in 1..(k - 1) :
        LET m == binary_matching(World, file, SourceFile(source_files, bucket[j]))
        IN m.exc = "none" /\ ~m.ret}

\* the call traces of get_file_hash, binary_matching and copy_file in the step the
\* run takes next
HandleCalls ==
    IF pc = "start"
    THEN {get_file_hash_calls(World, [root |-> "source", path |-> n]) : n \in get_files(src)}
    ELSE IF pc = "separate"
    THEN LET file == DestFile(dpath, i)
             hr == get_file_hash(World, file)
             bucket == IF hr.exc = "none" /\ DictHas(dict_source, hr.ret)
                       THEN DictGet(dict_source, hr.ret) ELSE <<>>
         IN {get_file_hash_calls(World, file)} \cup
            {binary_matching_calls(World, file, SourceFile(source_files, bucket[k])) :
                k \in ScannedBySeparate(file, bucket)}
    ELSE IF pc = "rename"
    THEN LET e == files_for_rename[rj]
             file == DestFile(dpath, e.v[rk])
             bucket == IF DictHas(dict_source, e.k) THEN DictGet(dict_source, e.k) ELSE <<>>
         IN {binary_matching_calls(World, file, SourceFile(source_files, bucket[k])) :
                k \in ScannedByRename(file, bucket)}
    ELSE IF pc = "copy"
    THEN LET file == SourceFile(source_files, DictFlatten(dict_source)[cp])
             n == create_file(World, "destination", get_file_name(file.path), nextId)
         IN {copy_file_calls(n.w, file, n.file)}
    ELSE {}

\* C11: in every call of get_file_hash, binary_matching and copy_file each opened
\* handle is closed exactly once before the call ends, close_file is never invoked
\* on a handle that is not open, and no handle stays open.
C11_ScopedRelease ==
    /\ \A calls \in HandleCalls : ScopedRelease(calls, 1, {})
    /\ exc # close_file(None)

\* C12: when a storage call fails inside get_file_hash, binary_matching or copy_file,
\* the exception that leaves sync_directories is that storage failure.
C12_OriginalFailureSurfaces ==
    (pc = "error" /\ cause # "none") => exc = cause

\* D is in the initial destination and the source holds a file of the same name and
\* the same content
\* the pending file rename_destination_files processes next, and its source bucket
PendingFile == DestFile(dpath, files_for_rename[rj].v[rk])

PendingBucket ==
    IF DictHas(dict_source, files_for_rename[rj].k)
    THEN DictGet(dict_source, files_for_rename[rj].k) ELSE <<>>

\* the next pending file has a non-empty source bucket without a binary-equal candidate
NoMatchPending ==
    /\ pc = "rename"
    /\ PendingBucket # <<>>
    /\ Exists(dst, PendingFile.path)
    /\ \A k \in 1..Len(PendingBucket) :
          ~match_loop(dst[PendingFile.path].c, src[source_files[PendingBucket[k]]].c, 0)

\* C13: a pending file R whose source bucket is non-empty but holds no binary-equal
\* candidate is removed from the destination, the bucket is left unchanged, and
\* processing continues with the next pending file.
C13_NoMatchRemoval ==
    [][NoMatchPending =>
         /\ ~Exists(dst', PendingFile.path)
         /\ dict_source' = dict_source
         /\ pc' # "error"
         /\ <<rj', rk'>> # <<rj, rk>>]_vars

ExactMatch(D) == D \in DOMAIN dst0 /\ D \in DOMAIN src0 /\ src0[D].c = dst0[D].c

\* C14: a destination file with an exact match in the source stays in place, is never
\* removed, renamed or written, and when the run returns its match was consumed for it.
C14_ExactMatchInPlace ==
    FirstRun =>
        \A D \in DOMAIN dst0 :
            ExactMatch(D) =>
                /\ D \in DOMAIN dst
                /\ dst[D] = dst0[D]
                /\ \A x \in 1..Len(ops) : ops[x].path # D /\ ops[x].to # D
                /\ (Returned /\ glob_match(D)) =>
                      \E x \in 1..Len(consumed) :
                          /\ source_files[consumed[x][1]] = D
                          /\ dpath[consumed[x][2]] = D

\* C15: phase order: the storage calls of a run are ordered by phase, phases 1 and 2
\* only remove and rename, phase 3 only creates and writes; phase 2 starts after every
\* destination file was classified, phase 3 after every pending file was resolved; no
\* consumed source file is copied.
C15_PhaseOrder ==
    /\ \A x, y \in 1..Len(ops) : x < y => ops[x].ph <= ops[y].ph
    /\ \A x \in 1..Len(ops) :
          IF ops[x].ph = 3 THEN ops[x].op \in {"create_file", "write_chunk"}
          ELSE ops[x].op \in {"remove_file", "rename_file"}
    /\ pc = "rename" => (i > Len(dpath) /\ Len(matched) = Len(dpath))
    /\ pc = "copy" => (i > Len(dpath) /\ rj > Len(files_for_rename))
    /\ HasOp("create_file") => rj > Len(files_for_rename)
    /\ \A x \in 1..Len(consumed), y \in 1..Len(ops) :
          ops[y].ph = 3 => ops[y].path # source_files[consumed[x][1]]

C15_Witness ==
    /\ Returned
    /\ \E x, y, z \in 1..Len(ops) :
          /\ ops[x].ph = 1 /\ ops[x].op = "rename_file"
          /\ ops[y].ph = 2 /\ ops[y].op = "rename_file"
          /\ ops[z].ph = 3 /\ ops[z].op = "write_chunk"

\* C16: every rename_file targets a name that no other destination file holds.
C16_NoRenameOntoOccupied ==
    /\ \A x \in 1..Len(ops) : ops[x].op = "rename_file" => ~ops[x].occ
    /\ exc # "FileExistsError"

\* C17: phase 3 creates only names that are free in the destination, and the copy
\* leaves exactly the source file's content under that name.
C17_CopyIntoFreshFile ==
    \A x \in 1..Len(ops) :
        ops[x].op = "create_file" =>
            /\ ~ops[x].occ
            /\ pc # "error" => dst[ops[x].path].c = src[ops[x].path].c

C17_Witness ==
    /\ Returned
    /\ \E x, y \in 1..Len(ops) :
          /\ ops[x].op = "remove_file"
          /\ ops[y].op = "create_file"
          /\ ops[y].path = ops[x].path
          /\ src[ops[y].path].c # <<>>

\* C18: a run aborts only when a storage call failed.
C18_AbortOnlyOnStorageFailure ==
    pc = "error" => cause # "none"


\* the positions of a scanned bucket whose candidate is binary-equal to the scanned file
EqualAt(m) ==
    {k \in 1..Len(m.bucket) :
        match_loop(m.c, src0[source_files[m.bucket[k]]].c, 0)}

\* the scan of m ended with a match and without an exact name match
NoNameMatch(m) ==
    /\ m.equal_file # None
    /\ \A k \in 1..Len(m.bucket) : get_file_name(source_files[m.bucket[k]]) # get_file_name(m.name)

\* C19 as stated: when the scan for D ends without an exact name match, equal_file is
\* the first binary-equal candidate in bucket order.
C19_FirstEqualCandidate ==
    FirstRun => \A x \in 1..Len(matched) : NoNameMatch(matched[x]) =>
        \E l \in EqualAt(matched[x]) :
            /\ matched[x].equal_file = matched[x].bucket[l]
            /\ \A k \in EqualAt(matched[x]) : l <= k

\* C19 amended: when the scan for D ends without an exact name match, equal_file is
\* the last binary-equal candidate in bucket order.
C19_LastEqualCandidate ==
    FirstRun => \A x \in 1..Len(matched) : NoNameMatch(matched[x]) =>
        \E l \in EqualAt(matched[x]) :
            /\ matched[x].equal_file = matched[x].bucket[l]
            /\ \A k \in EqualAt(matched[x]) : k <= l

C19_Witness ==
    /\ FirstRun
    /\ \E x \in 1..Len(matched) :
          /\ NoNameMatch(matched[x])
          /\ Cardinality(EqualAt(matched[x])) >= 2
          /\ matched[x].equal_file = matched[x].bucket[Len(matched[x].bucket)]
====
